---- MODULE Spec2Model ----
(***************************************************************************)
(* A model of diesel/src/sqlite/connection/raw.rs: RawConnection, the      *)
(* owner of one native sqlite3 handle, and the operations it issues on it. *)
(*                                                                         *)
(* Every operation is one action.  An action computes, from its inputs and *)
(* from the answers of the native library (chosen nondeterministically),   *)
(* the result handed to the caller and the ordered list of native events   *)
(* the operation performed (`events`).  The caller is single threaded: it  *)
(* issues an operation, looks at the result (Return) and goes on.          *)
(***************************************************************************)
EXTENDS Integers, Sequences, FiniteSets, TLC

\* ------------------------------------------------------------------ bounds
MaxHandles == 2   \* native handles the library hands out in one run
MaxLen     == 2   \* length of the path, passphrase, statement, delimiter
MaxStatus  == 2   \* native status codes are 0..MaxStatus
MaxCells   == 3   \* data cells (rows * columns) of a native result table
MaxRows    == 2   \* data rows of a table drawn for the table dumper alone
MaxCols    == 2   \* columns of a table drawn for the table dumper alone
MaxChanges == 1   \* rows a statement may report as changed

\* --------------------------------------------------------------- constants
SQLITE_OK    == 0
BUSY_TIMEOUT_short == 5000 \div 10
BUSY_TIMEOUT == 5000

\* ----------------------------------------------------------------- strings
NUL == "NUL"                      \* the terminator byte
Strings(alphabet) == UNION {[1..n -> alphabet] : n \in 0..MaxLen}

HasNul(s) == \E i \in 1..Len(s) : s[i] = NUL

\* The engine's scheme token and the separator that ends a scheme.
SchemeSep      == ":"
SchemeToken    == <<"s">>
SchemePrefixes == {<<>>, <<"s", ":">>, <<"x", ":">>}
HasScheme(url) == \E i \in 1..Len(url) : url[i] = SchemeSep
SchemeEnd(url) == CHOOSE i \in 1..Len(url) :
                     /\ url[i] = SchemeSep
                     /\ \A j \in 1..(i - 1) : url[j] # SchemeSep
SchemeOf(url)   == SubSeq(url, 1, SchemeEnd(url) - 1)
WrongScheme(url) == HasScheme(url) /\ SchemeOf(url) # SchemeToken

Urls        == {p \o s : p \in SchemePrefixes, s \in Strings({NUL, "d"})}
Passphrases == Strings({NUL, "k"})
Queries     == Strings({NUL, "q"})
Delimiters  == Strings({","})

None     == [some |-> FALSE, val |-> <<>>]
Some(s)  == [some |-> TRUE, val |-> s]
Passwords == {None} \cup {Some(s) : s \in Passphrases}

\* ------------------------------------------------------------ native layer
Handles     == 1..MaxHandles
NullHandle  == 0
StatusCodes == 0..MaxStatus
NullPtr     == "null"
Msgs        == {"m1", "m2"}       \* texts of native error-message buffers
Garbage     == "garbage"          \* what a read of freed memory may yield

\* One native event of an operation: a call into the library (fn names the
\* sqlite3 function) or a read of native memory (fn = "read_msg",
\* "read_cell").  h is the handle, str the string argument, num the integer
\* argument, ret the status the call returned, out the error-message
\* pointer it left behind.
Ev(fn, h, str, num, ret, out) ==
    [fn |-> fn, h |-> h, str |-> str, num |-> num, ret |-> ret, out |-> out]

IsNativeCall(e) == e.fn \notin {"read_msg", "read_cell", "write_stderr"}

\* ----------------------------------------------------------------- results
NoText == <<>>
Ok(conn, code, text) ==
    [ok |-> TRUE, kind |-> "Ok", code |-> code, msg |-> "", conn |-> conn, text |-> text]
Err(kind, code, msg) ==
    [ok |-> FALSE, kind |-> kind, code |-> code, msg |-> msg, conn |-> NullHandle, text |-> NoText]

\* CString::new: fails with a NulError on any interior terminator byte; the
\* try! turns it into the InvalidCString error of the result type.
CStringNew_unchecked(s) == Ok(NullHandle, 0, s)
CStringNew(s) ==
    IF HasNul(s) THEN Err("InvalidCString", 0, "") ELSE Ok(NullHandle, 0, s)

\* ensure_status_code_ok: BadConnection carrying error_message(err_code).
ensure_status_code_ok_always(status_code) == Ok(NullHandle, 0, NoText)
ensure_status_code_ok(status_code) ==
    IF status_code = SQLITE_OK
    THEN Ok(NullHandle, 0, NoText)
    ELSE Err("BadConnection", status_code, "")

\* the final match of establish on connection_status
connection_status_null(status_code, conn_pointer) ==
    IF status_code = SQLITE_OK
    THEN Ok(NullHandle, 0, NoText)
    ELSE Err("BadConnection", status_code, "")
connection_status(status_code, conn_pointer) ==
    IF status_code = SQLITE_OK
    THEN Ok(conn_pointer, 0, NoText)
    ELSE Err("BadConnection", status_code, "")

\* `if let Some(pwd) = password`
is_some_always(password) == TRUE
is_some(password) == password.some

\* `as libc::c_int` on a usize: the low 32 bits, read as a signed number.
\* Lengths up to i32::MAX are kept; the next 2^31 wrap to the negatives.
as_c_int(n) == IF n <= 2147483647 THEN n ELSE ((n - 2147483647) - 2147483647) - 2

\* (pwd.len() + 1) as c_int, and the bytes the native layer reads: the
\* passphrase followed by the terminator of the CString.
passphrase_len_short(pwd) == as_c_int(Len(pwd))
passphrase_len(pwd) == as_c_int(Len(pwd) + 1)
key_material(pwd)   == SubSeq(pwd \o <<NUL>>, 1, passphrase_len(pwd))

Outcome(result, evs) == [result |-> result, events |-> evs]

\* RawConnection::establish.  conn_pointer is the handle sqlite3_open
\* allocates; open_handle tells whether a failing open still left a handle
\* behind (sqlite3_open does, unless it could not allocate it).
establish(database_url, password, conn_pointer, open_status, open_handle, busy_status, key_status) ==
    IF ~CStringNew(database_url).ok
    THEN Outcome(CStringNew(database_url), <<>>)
    ELSE
      LET h == IF open_status = SQLITE_OK \/ open_handle
               THEN conn_pointer ELSE NullHandle
          ev_open == Ev("sqlite3_open", h, database_url, 0, open_status, NullPtr)
          ev_busy == Ev("sqlite3_busy_timeout", h, <<>>, BUSY_TIMEOUT, busy_status, NullPtr)
      IN
      IF ~ensure_status_code_ok(open_status).ok
      THEN Outcome(ensure_status_code_ok(open_status), <<ev_open>>)
      ELSE IF is_some(password)
      THEN IF ~ensure_status_code_ok(busy_status).ok
           THEN Outcome(ensure_status_code_ok(busy_status), <<ev_open, ev_busy>>)
           ELSE IF ~CStringNew(password.val).ok
           THEN Outcome(CStringNew(password.val), <<ev_open, ev_busy>>)
           ELSE LET ev_key == Ev("sqlite3_key", h, key_material(password.val),
                                 passphrase_len(password.val), key_status, NullPtr)
                IN Outcome(connection_status(key_status, h),
                           <<ev_open, ev_busy, ev_key>>)
      ELSE Outcome(connection_status(busy_status, h), <<ev_open, ev_busy>>)

\* convert_to_string: CStr::from_ptr(raw_msg) copied into an owned String.
\* Reading a buffer that is null or was already freed is undefined: any
\* text may come back.
convert_to_string(live, raw_msg) ==
    IF live /\ raw_msg # NullPtr THEN {raw_msg} ELSE Msgs \cup {Garbage}

\* convert_to_string_and_free: the copy, then sqlite3_free on the buffer.
convert_to_string_and_free_early(raw_msg) ==
    {[msg |-> m, events |-> <<Ev("sqlite3_free", NullHandle, <<>>, 0, 0, raw_msg), Ev("read_msg", NullHandle, <<>>, 0, 0, raw_msg)>>] : m \in convert_to_string(FALSE, raw_msg)}
convert_to_string_and_free(raw_msg) ==
    {[msg |-> m, events |-> <<Ev("read_msg", NullHandle, <<>>, 0, 0, raw_msg), Ev("sqlite3_free", NullHandle, <<>>, 0, 0, raw_msg)>>] : m \in convert_to_string(TRUE, raw_msg)}

\* `if err_msg.is_null()`: the status sqlite3_exec / sqlite3_get_table
\* returned is discarded by the caller and takes no part.
err_msg_is_null_by_status(status_code, err_msg) == status_code = SQLITE_OK
err_msg_is_null(status_code, err_msg) == err_msg = NullPtr

DatabaseError(msg) == Err("DatabaseError", 0, msg)

\* RawConnection::exec.  status_code and err_msg are what sqlite3_exec
\* answers.  The set holds one outcome per text the copy may yield.
exec(h, query, status_code, err_msg) ==
    IF ~CStringNew(query).ok
    THEN {Outcome(CStringNew(query), <<>>)}
    ELSE
      LET ev_exec == Ev("sqlite3_exec", h, query, 0, status_code, err_msg) IN
      IF err_msg_is_null(status_code, err_msg)
      THEN {Outcome(Ok(NullHandle, 0, NoText), <<ev_exec>>)}
      ELSE {Outcome(DatabaseError(c.msg), <<ev_exec>> \o c.events) : c \in convert_to_string_and_free(err_msg)}

\* rekey's own `(password.len() + 1) as c_int` and the bytes behind
\* passphrase.as_ptr() that the native layer reads with it
rekey_passphrase_len_short(password) == as_c_int(Len(password))
rekey_passphrase_len(password) == as_c_int(Len(password) + 1)
rekey_material(password) == SubSeq(password \o <<NUL>>, 1, rekey_passphrase_len(password))

\* RawConnection::rekey: the native status is handed back inside Ok.
rekey_translated(h, password, status_code) ==
    IF ~CStringNew(password).ok
    THEN Outcome(CStringNew(password), <<>>)
    ELSE Outcome(IF status_code = SQLITE_OK THEN Ok(NullHandle, status_code, NoText) ELSE DatabaseError(""), <<Ev("sqlite3_rekey", h, rekey_material(password), rekey_passphrase_len(password), status_code, NullPtr)>>)
rekey(h, password, status_code) ==
    IF ~CStringNew(password).ok
    THEN Outcome(CStringNew(password), <<>>)
    ELSE Outcome(Ok(NullHandle, status_code, NoText), <<Ev("sqlite3_rekey", h, rekey_material(password), rekey_passphrase_len(password), status_code, NullPtr)>>)

\* rows_affected_by_last_query: sqlite3_changes(..) as usize
rows_affected_by_last_query_none(h, changes) ==
    Outcome(Ok(NullHandle, 0, NoText), <<Ev("sqlite3_changes", h, <<>>, 0, changes, NullPtr)>>)
rows_affected_by_last_query(h, changes) ==
    Outcome(Ok(NullHandle, changes, NoText), <<Ev("sqlite3_changes", h, <<>>, 0, changes, NullPtr)>>)

\* last_error_message: the text behind sqlite3_errmsg(..), copied
last_error_message(h, errmsg) ==
    Outcome([Ok(NullHandle, 0, NoText) EXCEPT !.msg = errmsg], <<Ev("sqlite3_errmsg", h, <<>>, 0, 0, errmsg)>>)

\* last_error_code: sqlite3_extended_errcode(..)
last_error_code(h, errcode) ==
    Outcome(Ok(NullHandle, errcode, NoText), <<Ev("sqlite3_extended_errcode", h, <<>>, 0, errcode, NullPtr)>>)

\* ------------------------------------------------------------ result table
\* A cell of the native table: a null pointer or a C string.
NullCell    == [null |-> TRUE, s |-> <<>>]
Text(s)     == [null |-> FALSE, s |-> s]
HeaderCell  == Text(<<"h">>)
CellValues  == {NullCell, Text(<<>>), Text(<<"v">>)}
NULLToken   == <<"N", "U", "L", "L">>
NewLine     == <<"\n">>

\* What sqlite3_get_table hands over: rows data rows, cols columns and the
\* flat array of (rows + 1) * cols entries, row 0 the column names.
Shapes == {rc \in (0..MaxCells) \X (0..MaxCells) : rc[1] * rc[2] <= MaxCells}
TablesOf(r, c) ==
    {[rows |-> r, cols |-> c, cells |-> [i \in 1..((r + 1) * c) |-> IF i <= c THEN HeaderCell ELSE d[i - c]]] : d \in [1..(r * c) -> CellValues]}
Tables     == UNION {TablesOf(rc[1], rc[2]) : rc \in Shapes}
EmptyTable == [rows |-> 0, cols |-> 0, cells |-> <<>>]

\* [T]::join on strings
RECURSIVE join(_, _)
join(strs, sep) ==
    IF Len(strs) = 0 THEN <<>>
    ELSE IF Len(strs) = 1 THEN strs[1]
    ELSE strs[1] \o sep \o join(Tail(strs), sep)

\* one element of the inner loop: "NULL" for a null entry, else the copy
cell_value_empty(element) == IF element.null THEN <<>> ELSE element.s
cell_value(element) == IF element.null THEN NULLToken ELSE element.s

\* the inner loop `for column_index in 0..column_num`; values.get(index)
\* skips an index outside the slice
RECURSIVE column_values(_, _, _, _)
column_values(values, row_index, column_num, column_index) ==
    IF column_index >= column_num THEN <<>>
    ELSE LET index == row_index * column_num + column_index
             rest  == column_values(values, row_index, column_num, column_index + 1)
         IN IF index < Len(values) THEN <<cell_value(values[index + 1])>> \o rest ELSE rest

\* the outer loop `for row_index in 1..row_num`
RECURSIVE row_values(_, _, _, _, _)
row_values(values, row_num, column_num, delimiter, row_index) ==
    IF row_index >= row_num THEN <<>>
    ELSE <<join(column_values(values, row_index, column_num, 0), delimiter)>> \o row_values(values, row_num, column_num, delimiter, row_index + 1)

\* the reads of the table's entries, in the order of the two loops
RECURSIVE cell_reads(_, _, _)
cell_reads(values, column_num, index) ==
    IF index >= Len(values) THEN <<>>
    ELSE <<Ev("read_cell", NullHandle, <<>>, index, 0, NullPtr)>> \o cell_reads(values, column_num, index + 1)

\* lines 115-142: the table turned into text, then sqlite3_free_table
dump_table_with_header(t, delimiter) ==
    LET row_num    == t.rows + 1
        column_num == t.cols
        values     == SubSeq(t.cells, 1, row_num * column_num)
    IN [text   |-> join(row_values(values, row_num, column_num, delimiter, 0), NewLine),
        events |-> cell_reads(values, column_num, 0) \o <<Ev("sqlite3_free_table", NullHandle, <<>>, 0, 0, NullPtr)>>]
dump_table_free_first(t, delimiter) ==
    LET row_num    == t.rows + 1
        column_num == t.cols
        values     == SubSeq(t.cells, 1, row_num * column_num)
    IN [text   |-> join(row_values(values, row_num, column_num, delimiter, 1), NewLine),
        events |-> <<Ev("sqlite3_free_table", NullHandle, <<>>, 0, 0, NullPtr)>> \o cell_reads(values, column_num, column_num)]
dump_table(table, delimiter) ==
    LET row_num    == table.rows + 1
        column_num == table.cols
        values     == SubSeq(table.cells, 1, row_num * column_num)
    IN [text   |-> join(row_values(values, row_num, column_num, delimiter, 1), NewLine),
        events |-> cell_reads(values, column_num, column_num) \o <<Ev("sqlite3_free_table", NullHandle, <<>>, 0, 0, NullPtr)>>]

\* RawConnection::execute_for_string
execute_for_string(h, query, delimiter, status_code, err_msg, table) ==
    IF ~CStringNew(query).ok
    THEN {Outcome(CStringNew(query), <<>>)}
    ELSE
      LET ev_get == Ev("sqlite3_get_table", h, query, 0, status_code, err_msg) IN
      IF ~err_msg_is_null(status_code, err_msg)
      THEN {Outcome(DatabaseError(c.msg), <<ev_get>> \o c.events) : c \in convert_to_string_and_free(err_msg)}
      ELSE {Outcome(Ok(NullHandle, 0, dump_table(table, delimiter).text), <<ev_get>> \o dump_table(table, delimiter).events)}

\* Drop for RawConnection: sqlite3_close, then panic! or a line on stderr
\* when it did not return SQLITE_OK.
\* write_ok: whether the write! to stderr succeeded; its .expect panics
\* when it did not, and that is a second panic of a thread that is already
\* unwinding.
drop_twice(h, close_result, panicking, write_ok) ==
    LET ev_close == Ev("sqlite3_close", h, <<>>, 0, close_result, NullPtr) IN
    Outcome(Ok(NullHandle, 0, NoText), <<ev_close, ev_close>>)
drop(h, close_result, panicking, write_ok) ==
    LET ev_close == Ev("sqlite3_close", h, <<>>, 0, close_result, NullPtr)
        ev_write == Ev("write_stderr", NullHandle, <<>>, 0, close_result, NullPtr)
    IN
    IF close_result # SQLITE_OK
    THEN IF panicking
         THEN IF write_ok
              THEN Outcome(Err("Diagnostic", close_result, ""), <<ev_close, ev_write>>)
              ELSE Outcome(Err("PanicWhilePanicking", close_result, ""), <<ev_close, ev_write>>)
         ELSE Outcome(Err("Panic", close_result, ""), <<ev_close>>)
    ELSE Outcome(Ok(NullHandle, 0, NoText), <<ev_close>>)

\* ------------------------------------------------------------------- state
VARIABLES handles, conns, call, result, events, closes, table, db

vars == <<handles, conns, call, result, events, closes, table, db>>

\* handles: the library's view of each handle ("unalloc", "open", "closed")
\* conns:   the handles owned by a live RawConnection (internal_connection)
\* call:    the operation the caller issued last and its inputs
\* result:  what it returned
\* events:  the native events it performed, in order
\* closes:  how often sqlite3_close was called on each handle
\* table:   the result table the last sqlite3_get_table handed over
\* db:      the library's own state (change counter, error code, error
\*          message) of the handles whose state is followed; the answers
\*          about any other handle are left open

Call(op, url, password, query, delimiter, h, panicking) ==
    [op |-> op, url |-> url, password |-> password, query |-> query, delimiter |-> delimiter, h |-> h, panicking |-> panicking]
NoCall   == Call("none", <<>>, None, <<>>, <<>>, NullHandle, FALSE)
NoResult == Ok(NullHandle, 0, NoText)

\* The library's bookkeeping: sqlite3_open allocates the handle it returns,
\* sqlite3_close releases it when it returns SQLITE_OK.
RECURSIVE NativeApply(_, _)
NativeApply(hs, evs) ==
    IF evs = <<>> THEN hs
    ELSE LET e == Head(evs)
             hs1 == IF e.fn = "sqlite3_open" /\ e.h \in Handles
                    THEN [hs EXCEPT ![e.h] = "open"]
                    ELSE IF e.fn = "sqlite3_close" /\ e.h \in Handles /\ e.ret = SQLITE_OK
                    THEN [hs EXCEPT ![e.h] = "closed"]
                    ELSE hs
         IN NativeApply(hs1, Tail(evs))

\* the calls of sqlite3_close, counted per handle
RECURSIVE CloseCount(_, _)
CloseCount(cs, evs) ==
    IF evs = <<>> THEN cs
    ELSE LET e == Head(evs)
         IN CloseCount(IF e.fn = "sqlite3_close" /\ e.h \in Handles THEN [cs EXCEPT ![e.h] = @ + 1] ELSE cs, Tail(evs))

\* The library's state of one handle, and what a statement does to it: the
\* change counter is the statement's, the error code its status, the error
\* message the text it reported.
NotAnError == "not an error"
ErrTexts   == Msgs \cup {NotAnError}
DbStates   == [changes : 0..MaxChanges, errcode : StatusCodes, errmsg : ErrTexts]
FreshDb    == [changes |-> 0, errcode |-> SQLITE_OK, errmsg |-> NotAnError]
NativeDb(d, evs, n) ==
    IF evs # <<>> /\ evs[1].fn \in {"sqlite3_exec", "sqlite3_get_table"} /\ evs[1].h \in DOMAIN d
    THEN [d EXCEPT ![evs[1].h] = [changes |-> n, errcode |-> evs[1].ret, errmsg |-> IF evs[1].out = NullPtr THEN NotAnError ELSE evs[1].out]]
    ELSE d
\* what the library answers about handle h
NativeAnswers(h) == IF h \in DOMAIN db THEN {db[h]} ELSE DbStates
\* the change counts a statement on handle h may leave behind
StatementChanges(h) == IF h \in DOMAIN db THEN 0..MaxChanges ELSE {0}

FreeHandles == {h \in Handles : handles[h] = "unalloc"}
NextHandle  == CHOOSE h \in FreeHandles : \A g \in FreeHandles : h <= g
ErrMsgs     == {NullPtr} \cup Msgs

Init ==
    /\ handles = [h \in Handles |-> "unalloc"]
    /\ conns = {}
    /\ call = NoCall
    /\ result = NoResult
    /\ events = <<>>
    /\ closes = [h \in Handles |-> 0]
    /\ table = EmptyTable
    /\ db = <<>>

Finish(c, out, owned, t, d) ==
    /\ call' = c
    /\ result' = out.result
    /\ events' = out.events
    /\ handles' = NativeApply(handles, out.events)
    /\ closes' = CloseCount(closes, out.events)
    /\ conns' = owned
    /\ table' = t
    /\ db' = d

Establish ==
    /\ call.op = "none"
    /\ FreeHandles # {}
    /\ \E database_url \in Urls, password \in Passwords, open_status, busy_status, key_status \in StatusCodes, open_handle \in BOOLEAN :
          LET out == establish(database_url, password, NextHandle, open_status, open_handle, busy_status, key_status)
          IN Finish(Call("establish", database_url, password, <<>>, <<>>, NullHandle, FALSE), out, IF out.result.ok THEN conns \cup {out.result.conn} ELSE conns, EmptyTable, db)

Exec ==
    /\ call.op = "none"
    /\ \E h \in conns, query \in Queries, status_code \in StatusCodes, err_msg \in ErrMsgs :
          \E n \in StatementChanges(h), out \in exec(h, query, status_code, err_msg) :
             Finish(Call("exec", <<>>, None, query, <<>>, h, FALSE), out, conns, EmptyTable, NativeDb(db, out.events, n))

Rekey ==
    /\ call.op = "none"
    /\ \E h \in conns, password \in Passphrases, status_code \in StatusCodes :
          Finish(Call("rekey", <<>>, Some(password), <<>>, <<>>, h, FALSE), rekey(h, password, status_code), conns, EmptyTable, db)

\* What sqlite3_get_table may answer: an error message and no table; or no
\* message and, when it returned SQLITE_OK, a table; or neither (it gave up
\* before it built one: the table pointer is null, both counts are 0).
GetTableAnswers ==
    {[status |-> s, err_msg |-> m, table |-> EmptyTable] : s \in StatusCodes, m \in Msgs}
    \cup {[status |-> s, err_msg |-> NullPtr, table |-> EmptyTable] : s \in StatusCodes \ {SQLITE_OK}}
    \cup {[status |-> SQLITE_OK, err_msg |-> NullPtr, table |-> t] : t \in Tables}

ExecuteForString ==
    /\ call.op = "none"
    /\ \E h \in conns, query \in Queries, delimiter \in Delimiters, a \in GetTableAnswers :
          \E n \in StatementChanges(h), out \in execute_for_string(h, query, delimiter, a.status, a.err_msg, a.table) :
             Finish(Call("execute_for_string", <<>>, None, query, delimiter, h, FALSE), out, conns, IF out.events = <<>> THEN EmptyTable ELSE a.table, NativeDb(db, out.events, n))

RowsAffectedByLastQuery ==
    /\ call.op = "none"
    /\ \E h \in conns : \E changes \in {a.changes : a \in NativeAnswers(h)} :
          Finish(Call("rows_affected_by_last_query", <<>>, None, <<>>, <<>>, h, FALSE), rows_affected_by_last_query(h, changes), conns, EmptyTable, db)

LastErrorMessage ==
    /\ call.op = "none"
    /\ \E h \in conns : \E errmsg \in {a.errmsg : a \in NativeAnswers(h)} :
          Finish(Call("last_error_message", <<>>, None, <<>>, <<>>, h, FALSE), last_error_message(h, errmsg), conns, EmptyTable, db)

LastErrorCode ==
    /\ call.op = "none"
    /\ \E h \in conns : \E errcode \in {a.errcode : a \in NativeAnswers(h)} :
          Finish(Call("last_error_code", <<>>, None, <<>>, <<>>, h, FALSE), last_error_code(h, errcode), conns, EmptyTable, db)

Drop ==
    /\ call.op = "none"
    /\ \E h \in conns, close_result \in StatusCodes, panicking \in BOOLEAN, write_ok \in BOOLEAN :
          Finish(Call("drop", <<>>, None, <<>>, <<>>, h, panicking), drop(h, close_result, panicking, write_ok), conns \ {h}, EmptyTable, db)

\* the caller has looked at the result and goes on
Return ==
    /\ call.op # "none"
    /\ call' = NoCall
    /\ result' = NoResult
    /\ events' = <<>>
    /\ table' = EmptyTable
    /\ UNCHANGED <<handles, conns, closes, db>>

Next ==
    \/ Establish \/ Exec \/ Rekey \/ ExecuteForString
    \/ RowsAffectedByLastQuery \/ LastErrorMessage \/ LastErrorCode
    \/ Drop \/ Return

Spec == Init /\ [][Next]_vars

\* ---------------------------------------------------- the table dumper alone
\* One connection is established; a statement, a delimiter and the table
\* sqlite3_get_table will hand over are drawn; execute_for_string runs on
\* them.
InitTable ==
    /\ handles = [h \in Handles |-> IF h = 1 THEN "open" ELSE "unalloc"]
    /\ conns = {1}
    /\ \E delimiter \in Delimiters : call = Call("pending", <<>>, None, <<"q">>, delimiter, 1, FALSE)
    /\ result = NoResult
    /\ events = <<>>
    /\ closes = [h \in Handles |-> 0]
    /\ \E r \in 0..MaxRows, c \in 0..MaxCols : table \in TablesOf(r, c)
    /\ db = <<>>

DumpTable ==
    /\ call.op = "pending"
    /\ \E out \in execute_for_string(call.h, call.query, call.delimiter, SQLITE_OK, NullPtr, table) :
          Finish(Call("execute_for_string", <<>>, None, call.query, call.delimiter, call.h, FALSE), out, conns, table, db)

NextTable == DumpTable

SpecTable == InitTable /\ [][NextTable]_vars

\* ------------------------------------------- one handle's state followed
\* One connection is established and the library's state of its handle is
\* followed through statements and the three accessors.
InitAccess ==
    /\ handles = [h \in Handles |-> IF h = 1 THEN "open" ELSE "unalloc"]
    /\ conns = {1}
    /\ call = NoCall
    /\ result = NoResult
    /\ events = <<>>
    /\ closes = [h \in Handles |-> 0]
    /\ table = EmptyTable
    /\ db = [h \in {1} |-> FreshDb]

NextAccess ==
    \/ Exec \/ Rekey
    \/ RowsAffectedByLastQuery \/ LastErrorMessage \/ LastErrorCode
    \/ Return

SpecAccess == InitAccess /\ [][NextAccess]_vars

\* ------------------------------------------------------------------ claims
\* the events of the last operation that are calls on the native layer
NativeCalls == SelectSeq(events, IsNativeCall)
CountOf(fn) == Cardinality({i \in 1..Len(events) : events[i].fn = fn})
IndexOf(fn) == CHOOSE i \in 1..Len(events) : events[i].fn = fn
\* the native calls whose answer can report a failure
Reports(e)  == e.fn \in {"sqlite3_open", "sqlite3_busy_timeout", "sqlite3_key", "sqlite3_exec", "sqlite3_get_table"}
Failed(e)   == Reports(e) /\ (e.ret # SQLITE_OK \/ e.out # NullPtr)

\* C1: when establish returns an error, every handle its sqlite3_open
\* produced has been closed by then: no handle survives a failed
\* establishment.
C1_NoHandleSurvivesFailedEstablish ==
    (call.op = "establish" /\ ~result.ok) =>
        \A i \in 1..Len(events) :
            (events[i].fn = "sqlite3_open" /\ events[i].h # NullHandle) =>
                handles[events[i].h] = "closed"

\* C2: with a passphrase that holds a terminator byte, establish and rekey
\* fail with the encoding error and make no native call at all.
C2_NulPassphraseNoNativeCall ==
    (/\ call.op \in {"establish", "rekey"}
     /\ call.password.some
     /\ HasNul(call.password.val)) =>
        (result.kind = "InvalidCString" /\ NativeCalls = <<>>)

C4_NulStringRejectedBeforeNative ==
    [][((call'.op = "establish" /\ HasNul(call'.url))
         \/ (call'.op \in {"exec", "execute_for_string"} /\ HasNul(call'.query))) =>
            /\ ~result'.ok
            /\ result'.kind = "InvalidCString"
            /\ events' = <<>>
            /\ handles' = handles
            /\ conns' = conns]_vars

C4_Witness ==
    /\ call.op = "execute_for_string"
    /\ HasNul(call.query)
    /\ ~result.ok
    /\ events = <<>>
    /\ call.h \in conns
    /\ handles[call.h] = "open"

\* C5: when sqlite3_open succeeds in establish, the next native call is
\* sqlite3_busy_timeout on the handle it produced, with the value 5000; it
\* comes before sqlite3_key and is made with and without a passphrase.
C5_BusyTimeoutRightAfterOpen ==
    (call.op = "establish" /\ events # <<>> /\ events[1].ret = SQLITE_OK) =>
        /\ events[1].fn = "sqlite3_open"
        /\ events[1].h # NullHandle
        /\ Len(events) >= 2
        /\ events[2].fn = "sqlite3_busy_timeout"
        /\ events[2].h = events[1].h
        /\ events[2].num = 5000
        /\ \A i \in 1..Len(events) : events[i].fn = "sqlite3_key" => i > 2

C5_Witness ==
    /\ call.op = "establish"
    /\ call.password.some
    /\ Len(events) = 3
    /\ events[2].fn = "sqlite3_busy_timeout"
    /\ events[3].fn = "sqlite3_key"

\* C6: in establish the first native step that does not return SQLITE_OK
\* is the last one made, establish then returns BadConnection for that
\* status, and establish returns Ok only when every step returned
\* SQLITE_OK.
C6_NonOkStatusIsBadConnection ==
    call.op = "establish" =>
        /\ \A i \in 1..Len(events) :
              events[i].ret # SQLITE_OK =>
                 /\ i = Len(events)
                 /\ ~result.ok
                 /\ result.kind = "BadConnection"
                 /\ result.code = events[i].ret
        /\ result.ok =>
              /\ events # <<>>
              /\ \A i \in 1..Len(events) : events[i].ret = SQLITE_OK

C6_Witness ==
    /\ call.op = "establish"
    /\ call.password.some
    /\ Len(events) = 2
    /\ events[2].fn = "sqlite3_busy_timeout"
    /\ events[2].ret # SQLITE_OK
    /\ result.kind = "BadConnection"

\* C7: without a passphrase establish never calls sqlite3_key and succeeds
\* as soon as open and busy-timeout returned SQLITE_OK; with a passphrase
\* an Ok result comes after exactly one sqlite3_key on the new handle.
C7_KeyAppliedIffPresent ==
    call.op = "establish" =>
        /\ ~call.password.some =>
              /\ CountOf("sqlite3_key") = 0
              /\ (Len(events) = 2 /\ events[1].ret = SQLITE_OK /\ events[2].ret = SQLITE_OK) => result.ok
        /\ (call.password.some /\ result.ok) =>
              /\ CountOf("sqlite3_key") = 1
              /\ events[IndexOf("sqlite3_key")].h = result.conn
              /\ events[IndexOf("sqlite3_key")].str = key_material(call.password.val)
              /\ IndexOf("sqlite3_key") = Len(events)

C7_Witness ==
    /\ call.op = "establish"
    /\ call.password.some
    /\ result.ok
    /\ CountOf("sqlite3_key") = 1
    /\ result.conn \in conns

C9_NoNativeErrorSwallowed ==
    (call.op \in {"exec", "execute_for_string", "establish"}
     /\ \E i \in 1..Len(events) : Failed(events[i])) =>
        ~result.ok

\* C10: when exec or execute_for_string fails after its native call, the
\* error-message buffer is read (copied) once, then freed once, in that
\* order, and the message of the error is the text the buffer held.
C10_MessageCopiedThenFreedOnce ==
    (call.op \in {"exec", "execute_for_string"} /\ ~result.ok /\ events # <<>>) =>
        /\ events[1].out # NullPtr
        /\ CountOf("read_msg") = 1
        /\ CountOf("sqlite3_free") = 1
        /\ events[IndexOf("read_msg")].out = events[1].out
        /\ events[IndexOf("sqlite3_free")].out = events[1].out
        /\ IndexOf("read_msg") < IndexOf("sqlite3_free")
        /\ result.msg = events[1].out
        /\ CountOf("sqlite3_free_table") = 0

C10_Witness ==
    /\ call.op = "execute_for_string"
    /\ ~result.ok
    /\ Len(events) = 3
    /\ events[1].out = "m2"
    /\ result.msg = "m2"
    /\ events[3].fn = "sqlite3_free"

\* C11: a successful execute_for_string returns the data rows 1..R of the
\* table, the header left out: the cells of a row joined by the delimiter,
\* NULL for a null cell, the rows joined by one newline, nothing after the
\* last row, and the empty text when there is no data row.
ClaimCell(t, r, c) ==
    IF t.cells[r * t.cols + c + 1].null THEN <<"N", "U", "L", "L">> ELSE t.cells[r * t.cols + c + 1].s
RECURSIVE ClaimRow(_, _, _, _)
ClaimRow(t, r, k, d) ==
    IF k = 0 THEN <<>>
    ELSE IF k = 1 THEN ClaimCell(t, r, 0)
    ELSE ClaimRow(t, r, k - 1, d) \o d \o ClaimCell(t, r, k - 1)
RECURSIVE ClaimRows(_, _, _)
ClaimRows(t, k, d) ==
    IF k = 0 THEN <<>>
    ELSE IF k = 1 THEN ClaimRow(t, 1, t.cols, d)
    ELSE ClaimRows(t, k - 1, d) \o <<"\n">> \o ClaimRow(t, k, t.cols, d)

C11_TextIsDataRowsJoined ==
    (call.op = "execute_for_string" /\ result.ok) =>
        /\ result.text = ClaimRows(table, table.rows, call.delimiter)
        /\ table.rows = 0 => result.text = <<>>

C11_Witness ==
    /\ call.op = "execute_for_string"
    /\ result.ok
    /\ table.rows = 2
    /\ table.cols = 2
    /\ call.delimiter = <<",">>
    /\ result.text = <<"v", ",", "v", "\n", "N", "U", "L", "L", ",", "v">>

\* C12: a null cell and an empty-string cell never give the same text: the
\* text returned for a table differs from the text of the table that has
\* the empty string in the place of one of its null cells.
C12_NullNeverCollapsesToEmpty ==
    (call.op = "execute_for_string" /\ result.ok) =>
        \A i \in (table.cols + 1)..Len(table.cells) :
            table.cells[i].null =>
                result.text # dump_table([table EXCEPT !.cells[i] = Text(<<>>)], call.delimiter).text

C12_Witness ==
    /\ call.op = "execute_for_string"
    /\ result.ok
    /\ table.rows = 1
    /\ table.cols = 2
    /\ table.cells[3].null
    /\ table.cells[4] = Text(<<>>)
    /\ call.delimiter = <<",">>
    /\ result.text = <<"N", "U", "L", "L", ",">>

\* C13: a successful execute_for_string calls sqlite3_free_table once, as
\* its last event, after it has read every entry of the rows 1..R once,
\* whatever the number of null cells and of rows.
C13_TableFreedOnceAfterReads ==
    (call.op = "execute_for_string" /\ result.ok) =>
        /\ CountOf("sqlite3_free_table") = 1
        /\ events[Len(events)].fn = "sqlite3_free_table"
        /\ CountOf("sqlite3_free") = 0
        /\ CountOf("read_cell") = table.rows * table.cols
        /\ \A i \in table.cols..((table.rows + 1) * table.cols - 1) :
              \E j \in 1..(Len(events) - 1) : events[j].fn = "read_cell" /\ events[j].num = i

C13_Witness ==
    /\ call.op = "execute_for_string"
    /\ result.ok
    /\ table.rows = 2
    /\ table.cols = 2
    /\ \A i \in 3..6 : table.cells[i].null
    /\ Len(events) = 6
    /\ events[6].fn = "sqlite3_free_table"

\* C14: when sqlite3_get_table leaves an error message, execute_for_string
\* returns a DatabaseError of the unknown kind, reads no entry of the table
\* and does not call sqlite3_free_table.
C14_FailedGetTableLeavesTableAlone ==
    (call.op = "execute_for_string" /\ events # <<>> /\ events[1].out # NullPtr) =>
        /\ ~result.ok
        /\ result.kind = "DatabaseError"
        /\ CountOf("read_cell") = 0
        /\ CountOf("sqlite3_free_table") = 0

C14_Witness ==
    /\ call.op = "execute_for_string"
    /\ Len(events) = 3
    /\ events[1].fn = "sqlite3_get_table"
    /\ events[1].ret = SQLITE_OK
    /\ events[1].out = "m1"
    /\ result.kind = "DatabaseError"

\* C15: sqlite3_close is called on the handle of a connection only by drop
\* and exactly once: a live connection's handle has not been closed, no
\* operation but drop calls sqlite3_close, drop calls it once on its own
\* handle, and no handle is ever closed twice.
C15_ClosedExactlyOnceAtDrop ==
    /\ \A h \in Handles : closes[h] <= 1
    /\ \A h \in conns : closes[h] = 0
    /\ call.op # "drop" => CountOf("sqlite3_close") = 0
    /\ call.op = "drop" =>
          /\ CountOf("sqlite3_close") = 1
          /\ events[1].fn = "sqlite3_close"
          /\ events[1].h = call.h
          /\ closes[call.h] = 1
          /\ call.h \notin conns

C15_Witness ==
    /\ call.op = "drop"
    /\ closes[call.h] = 1
    /\ handles[call.h] = "closed"
    /\ call.h \notin conns
    /\ conns # {}

\* C16: when sqlite3_close does not return SQLITE_OK, drop panics if the
\* thread is not unwinding and only writes a diagnostic, without a further
\* panic, if it is; when sqlite3_close returns SQLITE_OK it does neither.
C16_TeardownTwoPaths ==
    call.op = "drop" =>
        /\ (events[1].ret # SQLITE_OK /\ ~call.panicking) => result.kind = "Panic"
        /\ (events[1].ret # SQLITE_OK /\ call.panicking) =>
              (result.kind = "Diagnostic" /\ CountOf("write_stderr") = 1)
        /\ events[1].ret = SQLITE_OK => (result.ok /\ CountOf("write_stderr") = 0)

\* C17: rekey hands back the native status untranslated: Ok carrying the
\* status sqlite3_rekey returned, whatever it is, for a passphrase without
\* a terminator byte; its one error is the encoding error, before the call.
C17_RekeyReturnsRawStatus ==
    call.op = "rekey" =>
        /\ HasNul(call.password.val) => (result.kind = "InvalidCString" /\ events = <<>>)
        /\ ~HasNul(call.password.val) =>
              /\ result.ok
              /\ Len(events) = 1
              /\ events[1].fn = "sqlite3_rekey"
              /\ events[1].h = call.h
              /\ result.code = events[1].ret
        /\ ~result.ok => result.kind = "InvalidCString"

C17_Witness ==
    /\ call.op = "rekey"
    /\ result.ok
    /\ events[1].ret # SQLITE_OK
    /\ result.code = events[1].ret

\* C18: a connection establish returns holds the non-null handle its own
\* successful sqlite3_open produced; the handle of a live connection is
\* open; and no native call is made on a handle after its close.
C18_HandleValidForLifetime ==
    /\ \A h \in conns : h \in Handles /\ handles[h] = "open"
    /\ (call.op = "establish" /\ result.ok) =>
          /\ result.conn # NullHandle
          /\ result.conn \in conns
          /\ events[1].fn = "sqlite3_open"
          /\ events[1].ret = SQLITE_OK
          /\ events[1].h = result.conn
          /\ \A i \in 1..Len(events) : events[i].h = result.conn
    /\ \A i \in 1..Len(events) :
          (IsNativeCall(events[i]) /\ events[i].h \in Handles) =>
              IF events[i].fn = "sqlite3_close"
              THEN closes[events[i].h] = 1
              ELSE closes[events[i].h] = 0 /\ handles[events[i].h] = "open"

C18_Witness ==
    /\ call.op = "exec"
    /\ events # <<>>
    /\ call.h = 2
    /\ handles[1] = "closed"
    /\ handles[2] = "open"

\* C19: the three accessors make one query call on their handle and
\* nothing else: the change counter, error code and error message of the
\* handle, the handles, the connections stay as they were, nothing is
\* freed, the result is never an error, and it is the value the library
\* holds: for rows_affected_by_last_query the change counter the last
\* statement left.
Accessors == {"rows_affected_by_last_query", "last_error_message", "last_error_code"}
AccessorCall(op) ==
    IF op = "rows_affected_by_last_query" THEN "sqlite3_changes"
    ELSE IF op = "last_error_message" THEN "sqlite3_errmsg"
    ELSE "sqlite3_extended_errcode"

C19_AccessorsReadOnly ==
    [][(call.op = "none" /\ call'.op \in Accessors) =>
          /\ db' = db
          /\ handles' = handles
          /\ closes' = closes
          /\ conns' = conns
          /\ result'.ok
          /\ Len(events') = 1
          /\ events'[1].fn = AccessorCall(call'.op)
          /\ events'[1].h = call'.h
          /\ call'.op = "rows_affected_by_last_query" => result'.code = db[call'.h].changes
          /\ call'.op = "last_error_code" => result'.code = db[call'.h].errcode
          /\ call'.op = "last_error_message" => result'.msg = db[call'.h].errmsg]_vars

C19_Witness ==
    /\ call.op = "rows_affected_by_last_query"
    /\ db[1].changes = 1
    /\ db[1].errcode = SQLITE_OK
    /\ result.ok
    /\ result.code = 1

\* C20: sqlite3_key in establish and sqlite3_rekey in rekey are given the
\* same key for the same passphrase: its bytes followed by the terminator
\* byte, with the length len + 1.
KeyGiven(e, pwd) ==
    /\ e.str = pwd \o <<NUL>>
    /\ e.num = Len(pwd) + 1
    /\ Len(e.str) = e.num

C20_SameKeyMaterial ==
    /\ (call.op = "establish" /\ CountOf("sqlite3_key") > 0) =>
          KeyGiven(events[IndexOf("sqlite3_key")], call.password.val)
    /\ (call.op = "rekey" /\ events # <<>>) =>
          (events[1].fn = "sqlite3_rekey" /\ KeyGiven(events[1], call.password.val))

C20_Witness ==
    /\ call.op = "rekey"
    /\ call.password.val = <<"k", "k">>
    /\ events # <<>>
    /\ events[1].str = <<"k", "k", NUL>>
    /\ events[1].num = 3

====
